---- MODULE Spec2Model ----
(***************************************************************************)
(* Lennard-Jones cutoff analysis (Analysis_of_Cutoff_Points.py).           *)
(*                                                                         *)
(* Python floats are modelled as exact rationals with the range of IEEE    *)
(* binary64: a finite value is s * (n / d) * 10^e with n and d arbitrary-  *)
(* size naturals; an operation whose exact result leaves the binary64 range *)
(* overflows (an infinity, or OverflowError for the power operator) or    *)
(* underflows to zero, as CPython does.  Rounding of the 53-bit significand *)
(* is not modelled: values are the exact ones the floats approximate.      *)
(***************************************************************************)
EXTENDS Integers, Sequences, FiniteSets, TLC

(***************************************************************************)
(* Arbitrary-size naturals: little-endian sequences of limbs in base Base, *)
(* without leading zero limbs; zero is the empty sequence.                 *)
(***************************************************************************)
Base == 100 * 100

RECURSIVE NatOf(_)
NatOf(k) == IF k = 0 THEN << >> ELSE <<k % Base>> \o NatOf(k \div Base)

RECURSIVE Trim(_)
Trim(a) ==
  IF a = << >> THEN << >>
  ELSE IF a[Len(a)] = 0 THEN Trim(SubSeq(a, 1, Len(a) - 1))
  ELSE a

Limb(a, i) == IF i <= Len(a) THEN a[i] ELSE 0

MaxLen(a, b) == IF Len(a) >= Len(b) THEN Len(a) ELSE Len(b)

RECURSIVE AddFrom(_, _, _, _)
AddFrom(a, b, i, c) ==
  IF i > MaxLen(a, b) THEN (IF c = 0 THEN << >> ELSE <<c>>)
  ELSE LET t == Limb(a, i) + Limb(b, i) + c
       IN  <<t % Base>> \o AddFrom(a, b, i + 1, t \div Base)

AddN(a, b) == AddFrom(a, b, 1, 0)

\* a - b for a >= b
RECURSIVE SubFrom(_, _, _, _)
SubFrom(a, b, i, c) ==
  IF i > Len(a) THEN << >>
  ELSE LET t == Limb(a, i) - Limb(b, i) - c
       IN  IF t < 0 THEN <<t + Base>> \o SubFrom(a, b, i + 1, 1)
           ELSE <<t>> \o SubFrom(a, b, i + 1, 0)

SubN(a, b) == Trim(SubFrom(a, b, 1, 0))

\* -1, 0, 1 as a < b, a = b, a > b, deciding from limb i downwards
RECURSIVE CmpFrom(_, _, _)
CmpFrom(a, b, i) ==
  IF i = 0 THEN 0
  ELSE IF a[i] < b[i] THEN -1
  ELSE IF a[i] > b[i] THEN 1
  ELSE CmpFrom(a, b, i - 1)

CmpN(a, b) ==
  IF Len(a) < Len(b) THEN -1
  ELSE IF Len(a) > Len(b) THEN 1
  ELSE CmpFrom(a, b, Len(a))

\* a * k for one limb k
RECURSIVE MulLimbFrom(_, _, _, _)
MulLimbFrom(a, k, i, c) ==
  IF i > Len(a) THEN (IF c = 0 THEN << >> ELSE <<c>>)
  ELSE LET t == a[i] * k + c
       IN  <<t % Base>> \o MulLimbFrom(a, k, i + 1, t \div Base)

MulLimb(a, k) == IF k = 0 THEN << >> ELSE MulLimbFrom(a, k, 1, 0)

ShiftN(a) == IF a = << >> THEN << >> ELSE <<0>> \o a

RECURSIVE MulFrom(_, _, _)
MulFrom(a, b, i) ==
  IF i > Len(b) THEN << >>
  ELSE AddN(MulLimb(a, b[i]), ShiftN(MulFrom(a, b, i + 1)))

MulN(a, b) == IF Len(a) >= Len(b) THEN MulFrom(a, b, 1) ELSE MulFrom(b, a, 1)

\* a^k by repeated squaring
RECURSIVE PowN(_, _)
PowN(a, k) ==
  IF k = 0 THEN <<1>>
  ELSE LET h == PowN(a, k \div 2)
       IN  IF k % 2 = 0 THEN MulN(h, h) ELSE MulN(a, MulN(h, h))


\* 10^k
Pow10N(k) == PowN(<<10>>, k)

DigitsOfLimb(x) == IF x >= 1000 THEN 4 ELSE IF x >= 100 THEN 3 ELSE IF x >= 10 THEN 2 ELSE 1

\* number of decimal digits of a > 0
DigitsN(a) == 4 * (Len(a) - 1) + DigitsOfLimb(a[Len(a)])

(***************************************************************************)
(* Float values and the outcome of evaluating a float expression:          *)
(*   k = "fin"    the finite value s * (n / d) * 10^e  (zero: n = << >>)   *)
(*   k = "inf"    the infinity of sign s                                   *)
(*   k = "nan"    not a number                                             *)
(*   k = "raise"  the evaluation raised the exception exc                  *)
(***************************************************************************)
Fin(s, n, d, e) ==
  IF n = << >>
  THEN [k |-> "fin", s |-> 1, n |-> << >>, d |-> <<1>>, e |-> 0, exc |-> ""]
  ELSE [k |-> "fin", s |-> s, n |-> n, d |-> d, e |-> e, exc |-> ""]

Inf(s) == [k |-> "inf", s |-> s, n |-> << >>, d |-> <<1>>, e |-> 0, exc |-> ""]

NaN == [k |-> "nan", s |-> 1, n |-> << >>, d |-> <<1>>, e |-> 0, exc |-> ""]

Raise(exc) == [k |-> "raise", s |-> 1, n |-> << >>, d |-> <<1>>, e |-> 0, exc |-> exc]

\* the float p / q * 10^e for small integers p, q > 0
Flt(p, q, e) == Fin(IF p < 0 THEN -1 ELSE 1, NatOf(IF p < 0 THEN -p ELSE p), NatOf(q), e)

IsZero(x) == x.k = "fin" /\ x.n = << >>

\* |x| lies in [10^(Order - 1), 10^(Order + 1)) for a finite x # 0
Order(x) == DigitsN(x.n) - DigitsN(x.d) + x.e

MinInt(a, b) == IF a <= b THEN a ELSE b

\* -1, 0, 1 as |x| < |y|, |x| = |y|, |x| > |y|, for finite x, y
CmpAbs(x, y) ==
  IF IsZero(x) THEN (IF IsZero(y) THEN 0 ELSE -1)
  ELSE IF IsZero(y) THEN 1
  ELSE IF Order(x) >= Order(y) + 2 THEN 1
  ELSE IF Order(y) >= Order(x) + 2 THEN -1
  ELSE LET m == MinInt(x.e, y.e)
       IN  CmpN(MulN(MulN(x.n, y.d), Pow10N(x.e - m)),
                MulN(MulN(y.n, x.d), Pow10N(y.e - m)))

\* sys.float_info.max = 1.7976931348623157e308
DblMax == Fin(1, <<3157, 4862, 9313, 7976, 1>>, <<1>>, 292)

\* the smallest positive (subnormal) float, 5e-324
DblTiny == Fin(1, <<5>>, <<1>>, -324)

\* decimal digits a binary64 significand (53 bits) resolves
SigDigits == 17

\* the float for the exact finite result x of an operation: over the range
\* the operation overflows (to `over`), under it the result is zero
Ranged(x, over) ==
  IF IsZero(x) THEN x
  ELSE IF CmpAbs(x, DblMax) = 1 THEN over
  ELSE IF CmpAbs(x, DblTiny) = -1 THEN Fin(1, << >>, <<1>>, 0)
  ELSE x

FNeg(x) == IF x.k \in {"fin", "inf"} /\ ~IsZero(x) THEN [x EXCEPT !.s = -x.s] ELSE x

FAbs(x) == IF x.k \in {"fin", "inf"} THEN [x EXCEPT !.s = 1] ELSE x

\* x + y for finite x, y: exact, unless one operand is below half a unit in
\* the last place of the other, which is then the rounded result
AddFin(x, y) ==
  IF IsZero(y) THEN x
  ELSE IF IsZero(x) THEN y
  ELSE IF Order(x) >= Order(y) + SigDigits + 2 THEN x
  ELSE IF Order(y) >= Order(x) + SigDigits + 2 THEN y
  ELSE LET m  == MinInt(x.e, y.e)
           xn == MulN(MulN(x.n, y.d), Pow10N(x.e - m))
           yn == MulN(MulN(y.n, x.d), Pow10N(y.e - m))
           dd == MulN(x.d, y.d)
       IN  IF x.s = y.s THEN Fin(x.s, AddN(xn, yn), dd, m)
           ELSE IF CmpN(xn, yn) >= 0 THEN Fin(x.s, SubN(xn, yn), dd, m)
           ELSE Fin(y.s, SubN(yn, xn), dd, m)

\* the exact product, quotient (y # 0) and k-th power of finite values
MulFin(x, y) == Fin(x.s * y.s, MulN(x.n, y.n), MulN(x.d, y.d), x.e + y.e)

DivFin(x, y) == Fin(x.s * y.s, MulN(x.n, y.d), MulN(x.d, y.n), x.e - y.e)

PowFin(x, k) == Fin(IF k % 2 = 0 THEN 1 ELSE x.s, PowN(x.n, k), PowN(x.d, k), x.e * k)

\* float.__add__
FAdd(x, y) ==
  IF x.k = "raise" THEN x
  ELSE IF y.k = "raise" THEN y
  ELSE IF x.k = "nan" \/ y.k = "nan" THEN NaN
  ELSE IF x.k = "inf" THEN (IF y.k = "inf" /\ y.s # x.s THEN NaN ELSE x)
  ELSE IF y.k = "inf" THEN y
  ELSE LET z == AddFin(x, y) IN Ranged(z, Inf(z.s))

\* float.__sub__
FSub(x, y) == FAdd(x, FNeg(y))

\* float.__mul__
FMul(x, y) ==
  IF x.k = "raise" THEN x
  ELSE IF y.k = "raise" THEN y
  ELSE IF x.k = "nan" \/ y.k = "nan" THEN NaN
  ELSE IF x.k = "inf" \/ y.k = "inf"
       THEN (IF IsZero(x) \/ IsZero(y) THEN NaN ELSE Inf(x.s * y.s))
  ELSE Ranged(MulFin(x, y), Inf(x.s * y.s))

\* float.__truediv__
FDiv(x, y) ==
  IF x.k = "raise" THEN x
  ELSE IF y.k = "raise" THEN y
  ELSE IF IsZero(y) THEN Raise("ZeroDivisionError")
  ELSE IF x.k = "nan" \/ y.k = "nan" THEN NaN
  ELSE IF x.k = "inf" THEN (IF y.k = "inf" THEN NaN ELSE Inf(x.s * y.s))
  ELSE IF y.k = "inf" THEN Fin(1, << >>, <<1>>, 0)
  ELSE Ranged(DivFin(x, y), Inf(x.s * y.s))

\* float.__pow__ with an integer exponent k >= 1
FPow(x, k) ==
  IF x.k \in {"raise", "nan"} THEN x
  ELSE IF x.k = "inf" THEN Inf(IF k % 2 = 0 THEN 1 ELSE x.s)
  ELSE Ranged(PowFin(x, k), Raise("OverflowError"))

\* -1, 0, 1 as x < y, x = y, x > y, for x, y finite or infinite
FCmp(x, y) ==
  IF x.k = "inf" THEN (IF y.k = "inf" /\ y.s = x.s THEN 0 ELSE x.s)
  ELSE IF y.k = "inf" THEN -y.s
  ELSE IF IsZero(x) THEN (IF IsZero(y) THEN 0 ELSE -y.s)
  ELSE IF IsZero(y) THEN x.s
  ELSE IF x.s # y.s THEN x.s
  ELSE x.s * CmpAbs(x, y)

IsNum(x) == x.k \in {"fin", "inf"}

\* float.__lt__, __gt__, __le__, __ge__, __eq__ (all false on a NaN)
FLess(x, y) == IsNum(x) /\ IsNum(y) /\ FCmp(x, y) = -1

FGreater(x, y) == IsNum(x) /\ IsNum(y) /\ FCmp(x, y) = 1

FLeq(x, y) == IsNum(x) /\ IsNum(y) /\ FCmp(x, y) <= 0

FGeq(x, y) == IsNum(x) /\ IsNum(y) /\ FCmp(x, y) >= 0

FEq(x, y) == IsNum(x) /\ IsNum(y) /\ FCmp(x, y) = 0

\* the same outcome: the same exception, both NaN, or equal numbers
SameOutcome(x, y) ==
  IF x.k = "raise" \/ y.k = "raise" THEN x.k = y.k /\ x.exc = y.exc
  ELSE IF x.k = "nan" \/ y.k = "nan" THEN x.k = y.k
  ELSE FEq(x, y)

(***************************************************************************)
(* def lennard_jones(r, epsilon=1.0, sigma=1.0)                            *)
(***************************************************************************)
Threshold == Flt(1, 100, 0)

PosInf == Inf(1)

One == Flt(1, 1, 0)

Four == Flt(4, 1, 0)

Zero == Flt(0, 1, 0)

\* sr6 = (sigma / r)**6; return 4 * epsilon * (sr6**2 - sr6)
\* the two terms added instead of subtracted
lj_formula_plus(r, epsilon, sigma) ==
  LET sr6 == FPow(FDiv(sigma, r), 6)
  IN  FMul(FMul(Four, epsilon), FAdd(FPow(sr6, 2), sr6))

lj_formula(r, epsilon, sigma) ==
  LET sr6 == FPow(FDiv(sigma, r), 6)
  IN  FMul(FMul(Four, epsilon), FSub(FPow(sr6, 2), sr6))

\* the clamp taken at the threshold as well
lennard_jones_le(r, epsilon, sigma) ==
  IF FLeq(r, Threshold) THEN PosInf ELSE lj_formula(r, epsilon, sigma)

\* the clamp applied to the magnitude of r
lennard_jones_abs(r, epsilon, sigma) ==
  IF FLess(FAbs(r), Threshold) THEN PosInf ELSE lj_formula(r, epsilon, sigma)

lennard_jones(r, epsilon, sigma) ==
  IF FLess(r, Threshold) THEN PosInf ELSE lj_formula(r, epsilon, sigma)

\* lennard_jones(r): epsilon and sigma omitted
lennard_jones_default(r) == lennard_jones(r, One, One)


(***************************************************************************)
(* Constants of analyze_cutoff_comparison and computational_scaling_demo.  *)
(***************************************************************************)
Two == Flt(2, 1, 0)

Three == Flt(3, 1, 0)

Hundred == Flt(100, 1, 0)

epsilon0 == One

sigma0 == One

cutoffs == <<Flt(2, 1, 0), Flt(25, 10, 0), Flt(3, 1, 0)>>

cutoff_labels == <<"2.0sigma", "2.5sigma", "3.0sigma">>

\* np.pi = 3.141592653589793
Pi == Fin(1, <<9793, 5358, 5926, 3141>>, <<1>>, -15)

density == Flt(8, 10, 0)

\* samples of the full curve and of the tail curve that the model takes (the
\* script takes 1000 and 500: the curves are only plotted)
NumFull == 40

NumTail == 20

\* cutoffs sampled by computational_scaling_demo
NumScaling == 50

\* np.linspace(start, stop, num)[j], j = 0 .. num - 1
linspace(start, stop, num, j) ==
  FAdd(start, FMul(Flt(j, 1, 0), FDiv(FSub(stop, start), Flt(num - 1, 1, 0))))

r_values(j) == linspace(Flt(9, 10, 0), Flt(4, 1, 0), NumFull, j)

tail_r(j) == linspace(Flt(2, 1, 0), Flt(4, 1, 0), NumTail, j)

scaling_cutoffs(j) == linspace(Flt(18, 10, 0), Flt(4, 1, 0), NumScaling, j)

\* percentage = abs(potential / epsilon) * 100
percentage_of(potential, epsilon) == FMul(FAbs(FDiv(potential, epsilon)), Hundred)

\* the if / elif chain that sets significance
\* the first threshold not strict
significance_of_geq(percentage) ==
  IF FGeq(percentage, Flt(5, 1, 0)) THEN "High"
  ELSE IF FGreater(percentage, Flt(2, 1, 0)) THEN "Significant"
  ELSE IF FGreater(percentage, Flt(1, 1, 0)) THEN "Moderate"
  ELSE "Negligible"

significance_of(percentage) ==
  IF FGreater(percentage, Flt(5, 1, 0)) THEN "High"
  ELSE IF FGreater(percentage, Flt(2, 1, 0)) THEN "Significant"
  ELSE IF FGreater(percentage, Flt(1, 1, 0)) THEN "Moderate"
  ELSE "Negligible"

\* neighbors = (4/3) * np.pi * cutoff**3 * density
neighbors_of(cutoff) ==
  FMul(FMul(FMul(FDiv(Four, Three), Pi), FPow(cutoff, 3)), density)

\* relative_cost = (cutoff/2.0)**3
\* the cost taken as an area, not a volume
relative_cost_of_square(cutoff) == FPow(FDiv(cutoff, Two), 2)

relative_cost_of(cutoff) == FPow(FDiv(cutoff, Two), 3)

\* (r/2.5)**3 of computational_scaling_demo
scaling_cost_of(r) == FPow(FDiv(r, Flt(25, 10, 0)), 3)

VARIABLES
  pc,                   \* position of the script
  i,                    \* iterations done of the loop at pc
  potential_values,     \* the full curve
  tail_potential,       \* the tail curve
  marked,               \* the (cutoff, potential_at_cutoff) points plotted
  comparison_data,      \* the rows of the table
  out,                  \* the lines printed
  potentials,           \* computational_scaling_demo's |V| list
  computational_costs,  \* computational_scaling_demo's cost list
  r, epsilon, sigma,    \* the arguments of a call of lennard_jones
  result,               \* its outcome
  called,               \* "no", "full" (three arguments) or "default" (r only)
  percentages,          \* two percentages to classify
  significances         \* their tiers, once classified

progVars == <<pc, i, potential_values, tail_potential, marked, comparison_data,
              out, potentials, computational_costs>>

callVars == <<r, epsilon, sigma, result, called>>

tierVars == <<percentages, significances>>

vars == <<progVars, callVars, tierVars>>

Text(sec, text) == [sec |-> sec, text |-> text]

CallIdle ==
  /\ r = One /\ epsilon = One /\ sigma = One /\ result = NaN /\ called = "no"

TierIdle == percentages = << >> /\ significances = << >>

ProgIdle ==
  /\ pc = "start" /\ i = 0
  /\ potential_values = << >> /\ tail_potential = << >> /\ marked = << >>
  /\ comparison_data = << >> /\ out = << >>
  /\ potentials = << >> /\ computational_costs = << >>

(***************************************************************************)
(* The script: __main__, analyze_cutoff_comparison,                        *)
(* computational_scaling_demo.  One action per statement or loop           *)
(* iteration that computes or prints; the matplotlib calls draw and keep   *)
(* no state of the script.                                                 *)
(***************************************************************************)
Init == ProgIdle /\ CallIdle /\ TierIdle

\* the script calls nothing of the two harnesses below
ProgOnly == UNCHANGED <<callVars, tierVars>>

Goto(next) == pc' = next /\ i' = 0

\* print("Analyzing Lennard-Jones potential cutoff comparison...")
PrintBanner ==
  /\ pc = "start"
  /\ out' = Append(out, Text("banner", "Analyzing Lennard-Jones potential cutoff comparison..."))
  /\ Goto("full_curve")
  /\ UNCHANGED <<potential_values, tail_potential, marked, comparison_data,
                 potentials, computational_costs>>
  /\ ProgOnly

\* potential_values = [lennard_jones(r, epsilon, sigma) for r in r_values]
EvalFullCurve ==
  /\ pc = "full_curve"
  /\ potential_values' =
       Append(potential_values, lennard_jones(r_values(i), epsilon0, sigma0))
  /\ IF i + 1 = NumFull THEN Goto("mark_full") ELSE pc' = pc /\ i' = i + 1
  /\ UNCHANGED <<tail_potential, marked, comparison_data, out, potentials,
                 computational_costs>>
  /\ ProgOnly

\* for cutoff, label, color in zip(...): potential_at_cutoff = ...; plt.plot(...)
MarkCutoff(here, next) ==
  /\ pc = here
  /\ marked' = Append(marked, [cutoff |-> cutoffs[i + 1],
                               potential_at_cutoff |->
                                 lennard_jones(cutoffs[i + 1], epsilon0, sigma0)])
  /\ IF i + 1 = Len(cutoffs) THEN Goto(next) ELSE pc' = pc /\ i' = i + 1
  /\ UNCHANGED <<potential_values, tail_potential, comparison_data, out,
                 potentials, computational_costs>>
  /\ ProgOnly

MarkCutoffsFull == MarkCutoff("mark_full", "tail_curve")

\* tail_potential = [lennard_jones(r, epsilon, sigma) for r in tail_r]
EvalTailCurve ==
  /\ pc = "tail_curve"
  /\ tail_potential' =
       Append(tail_potential, lennard_jones(tail_r(i), epsilon0, sigma0))
  /\ IF i + 1 = NumTail THEN Goto("mark_tail") ELSE pc' = pc /\ i' = i + 1
  /\ UNCHANGED <<potential_values, marked, comparison_data, out, potentials,
                 computational_costs>>
  /\ ProgOnly

MarkCutoffsTail == MarkCutoff("mark_tail", "table")

\* comparison_data.append([cutoff, potential, percentage]) (the cell texts
\* format these three values)
BuildTableRow ==
  /\ pc = "table"
  /\ LET cutoff == cutoffs[i + 1]
         potential == lennard_jones(cutoff, epsilon0, sigma0)
     IN  comparison_data' =
           Append(comparison_data,
                  [cutoff |-> cutoff, potential |-> potential,
                   percentage |-> percentage_of(potential, epsilon0)])
  /\ IF i + 1 = Len(cutoffs) THEN Goto("header") ELSE pc' = pc /\ i' = i + 1
  /\ UNCHANGED <<potential_values, tail_potential, marked, out, potentials,
                 computational_costs>>
  /\ ProgOnly

\* the five prints that open the report
PrintHeader ==
  /\ pc = "header"
  /\ out' = out \o <<Text("header", "============"),
                     Text("header", "LENNARD-JONES POTENTIAL CUTOFF ANALYSIS"),
                     Text("header", "============"),
                     Text("header", "Cutoff Potential % of e Significance"),
                     Text("header", "------------")>>
  /\ Goto("rows")
  /\ UNCHANGED <<potential_values, tail_potential, marked, comparison_data,
                 potentials, computational_costs>>
  /\ ProgOnly

\* the rows printed from the last cutoff to the first
PrintRowReversed ==
  /\ pc = "rows"
  /\ LET cutoff == cutoffs[Len(cutoffs) - i]
         potential == lennard_jones(cutoff, epsilon0, sigma0)
         percentage == percentage_of(potential, epsilon0)
     IN  out' = Append(out, [sec |-> "row", label |-> cutoff_labels[Len(cutoffs) - i],
                             potential |-> potential, percentage |-> percentage,
                             significance |-> significance_of(percentage)])
  /\ IF i + 1 = Len(cutoffs) THEN Goto("impact_header") ELSE pc' = pc /\ i' = i + 1
  /\ UNCHANGED <<potential_values, tail_potential, marked, comparison_data,
                 potentials, computational_costs>>
  /\ ProgOnly

\* one iteration of the loop that prints the significance rows
PrintRow ==
  /\ pc = "rows"
  /\ LET cutoff == cutoffs[i + 1]
         potential == lennard_jones(cutoff, epsilon0, sigma0)
         percentage == percentage_of(potential, epsilon0)
     IN  out' = Append(out, [sec |-> "row", label |-> cutoff_labels[i + 1],
                             potential |-> potential, percentage |-> percentage,
                             significance |-> significance_of(percentage)])
  /\ IF i + 1 = Len(cutoffs) THEN Goto("impact_header") ELSE pc' = pc /\ i' = i + 1
  /\ UNCHANGED <<potential_values, tail_potential, marked, comparison_data,
                 potentials, computational_costs>>
  /\ ProgOnly

\* print("\nCOMPUTATIONAL IMPACT:"); print("-"*30)
PrintImpactHeader ==
  /\ pc = "impact_header"
  /\ out' = out \o <<Text("impact_header", "COMPUTATIONAL IMPACT:"),
                     Text("impact_header", "------")>>
  /\ Goto("impact")
  /\ UNCHANGED <<potential_values, tail_potential, marked, comparison_data,
                 potentials, computational_costs>>
  /\ ProgOnly

\* one iteration of the loop that prints neighbors and relative cost
PrintImpact ==
  /\ pc = "impact"
  /\ out' = Append(out, [sec |-> "impact", label |-> cutoff_labels[i + 1],
                         neighbors |-> neighbors_of(cutoffs[i + 1]),
                         relative_cost |-> relative_cost_of(cutoffs[i + 1])])
  /\ IF i + 1 = Len(cutoffs) THEN Goto("recommendation") ELSE pc' = pc /\ i' = i + 1
  /\ UNCHANGED <<potential_values, tail_potential, marked, comparison_data,
                 potentials, computational_costs>>
  /\ ProgOnly

\* a hard-coded "label: ..., potential = P (Q%)" line
Recommend(label, potential, percentage) ==
  [sec |-> "recommendation", label |-> label, potential |-> potential,
   percentage |-> percentage]

\* the seven prints that close analyze_cutoff_comparison
PrintRecommendation ==
  /\ pc = "recommendation"
  /\ out' = out \o
       <<Text("recommendation_header", "RECOMMENDATION:"),
         Text("recommendation_header", "---"),
         Recommend("2.0sigma", Flt(-615, 10000, 0), Flt(615, 100, 0)),
         Recommend("2.5sigma", Flt(-163, 10000, 0), Flt(163, 100, 0)),
         Recommend("3.0sigma", Flt(-67, 10000, 0), Flt(67, 100, 0)),
         Text("closing", "2.0sigma cutoff sacrifices some accuracy for maximum speed."),
         Text("closing", "2.5sigma remains the best balance for most applications.")>>
  /\ Goto("separator")
  /\ UNCHANGED <<potential_values, tail_potential, marked, comparison_data,
                 potentials, computational_costs>>
  /\ ProgOnly

\* print("\n" + "="*60); print("Computational scaling demonstration...")
PrintSeparator ==
  /\ pc = "separator"
  /\ out' = out \o <<Text("separator", "============"),
                     Text("separator", "Computational scaling demonstration...")>>
  /\ Goto("scaling_potentials")
  /\ UNCHANGED <<potential_values, tail_potential, marked, comparison_data,
                 potentials, computational_costs>>
  /\ ProgOnly

\* potentials = [abs(lennard_jones(r)) for r in cutoffs]
EvalPotentials ==
  /\ pc = "scaling_potentials"
  /\ potentials' = Append(potentials, FAbs(lennard_jones_default(scaling_cutoffs(i))))
  /\ IF i + 1 = NumScaling THEN Goto("scaling_costs") ELSE pc' = pc /\ i' = i + 1
  /\ UNCHANGED <<potential_values, tail_potential, marked, comparison_data, out,
                 computational_costs>>
  /\ ProgOnly

\* computational_costs = [(r/2.5)**3 for r in cutoffs]
EvalCosts ==
  /\ pc = "scaling_costs"
  /\ computational_costs' =
       Append(computational_costs, scaling_cost_of(scaling_cutoffs(i)))
  /\ IF i + 1 = NumScaling THEN Goto("done") ELSE pc' = pc /\ i' = i + 1
  /\ UNCHANGED <<potential_values, tail_potential, marked, comparison_data, out,
                 potentials>>
  /\ ProgOnly

Next ==
  \/ PrintBanner
  \/ EvalFullCurve
  \/ MarkCutoffsFull
  \/ EvalTailCurve
  \/ MarkCutoffsTail
  \/ BuildTableRow
  \/ PrintHeader
  \/ PrintRow
  \/ PrintImpactHeader
  \/ PrintImpact
  \/ PrintRecommendation
  \/ PrintSeparator
  \/ EvalPotentials
  \/ EvalCosts

Spec == Init /\ [][Next]_vars

(***************************************************************************)
(* lennard_jones as a function of its arguments: a call with three         *)
(* arguments, or with r alone, from any of a grid of argument values.      *)
(***************************************************************************)
MaxNum == 3

RECURSIVE Gcd(_, _)
Gcd(a, b) == IF b = 0 THEN a ELSE Gcd(b, a % b)

AbsInt(a) == IF a < 0 THEN -a ELSE a

\* p / q in lowest terms, |p| <= MaxNum, around the threshold and the well
Distances ==
  {Flt(p, q, 0) : <<p, q>> \in {pq \in (-MaxNum .. MaxNum) \X {1, 2, 100, 200} :
                                  Gcd(AbsInt(pq[1]), pq[2]) = 1}}
  \cup {Flt(1, 1, 30), Flt(1, 1, 300)}

Ordinary ==
  {Flt(p, q, 0) : <<p, q>> \in {pq \in (1 .. MaxNum) \X {1, 2} : Gcd(pq[1], pq[2]) = 1}}

Epsilons == Ordinary \cup {Flt(-1, 1, 0), Flt(1, 1, -10), Flt(1, 1, 308)}

Sigmas ==
  Ordinary \cup {Flt(-1, 1, 0), Flt(1, 1, -60), Flt(1, 1, 10), Flt(1, 1, 26),
                 Flt(1, 1, 60), Flt(1, 1, 307)}

InitCall ==
  /\ ProgIdle /\ TierIdle
  /\ r \in Distances /\ epsilon \in Epsilons /\ sigma \in Sigmas
  /\ result = NaN /\ called = "no"

\* lennard_jones(r, epsilon, sigma)
Call ==
  /\ called = "no"
  /\ result' = lennard_jones(r, epsilon, sigma)
  /\ called' = "full"
  /\ UNCHANGED <<r, epsilon, sigma, progVars, tierVars>>

\* lennard_jones(r): epsilon and sigma are bound to their defaults
CallDefault ==
  /\ called = "no"
  /\ epsilon' = One /\ sigma' = One
  /\ result' = lennard_jones_default(r)
  /\ called' = "default"
  /\ UNCHANGED <<r, progVars, tierVars>>

NextCall == Call \/ CallDefault

SpecCall == InitCall /\ [][NextCall]_vars

(***************************************************************************)
(* The significance classification as a function of the percentage: two    *)
(* percentages are classified, on a grid of tenths of a percent.           *)
(***************************************************************************)
MaxTenths == 60

Percentages == {Flt(j, 10, 0) : j \in 0 .. MaxTenths} \cup {PosInf}

InitTier ==
  /\ ProgIdle /\ CallIdle
  /\ percentages \in Percentages \X Percentages
  /\ significances = << >>

Classify ==
  /\ significances = << >>
  /\ significances' = <<significance_of(percentages[1]), significance_of(percentages[2])>>
  /\ UNCHANGED <<percentages, progVars, callVars>>

NextTier == Classify

SpecTier == InitTier /\ [][NextTier]_vars


(***************************************************************************)
(* Properties of lennard_jones (SpecCall).                                 *)
(***************************************************************************)
Positive(x) == FGreater(x, Zero)

\* V(r) = 4 eps ((sigma/r)^12 - (sigma/r)^6) as a real number, r # 0
LJValue(rr, eps, sig) ==
  LET sr == DivFin(sig, rr)
  IN  MulFin(MulFin(Four, eps), AddFin(PowFin(sr, 12), FNeg(PowFin(sr, 6))))

\* the float that stands for the real number v
NearestFloat(v) == Ranged(v, Inf(v.s))

\* C1: for r >= 0.01 and positive epsilon and sigma the call returns
\* 4*epsilon*((sigma/r)^12 - (sigma/r)^6), and with epsilon and sigma omitted
\* it returns 4*((1/r)^12 - (1/r)^6).
C1_ReturnsFormula ==
  /\ (called # "no" /\ FGeq(r, Threshold) /\ Positive(epsilon) /\ Positive(sigma))
       => /\ IsNum(result)
          /\ FEq(result, NearestFloat(LJValue(r, epsilon, sigma)))
  /\ (called = "default" /\ FGeq(r, Threshold))
       => /\ IsNum(result)
          /\ FEq(result, NearestFloat(LJValue(r, One, One)))

\* The formula is what is returned for parameters of ordinary size.
LJ_OrdinaryFormula ==
  (called # "no" /\ FGeq(r, Threshold) /\ epsilon \in Ordinary /\ sigma \in Ordinary)
    => /\ IsNum(result)
       /\ FEq(result, NearestFloat(LJValue(r, epsilon, sigma)))

C3_NeverRaises == called # "no" => result.k # "raise"

\* C8: for positive epsilon and sigma and every r > 0 the value returned is
\* at least -epsilon, and equals -epsilon exactly where (sigma/r)^6 = 1/2.
C8_BoundedBelow ==
  (called # "no" /\ Positive(r) /\ Positive(epsilon) /\ Positive(sigma))
    => /\ FGeq(result, FNeg(epsilon))
       /\ FEq(result, FNeg(epsilon))
            <=> FEq(PowFin(DivFin(sigma, r), 6), Flt(1, 2, 0))

Rank(tier) ==
  CASE tier = "High" -> 3
    [] tier = "Significant" -> 2
    [] tier = "Moderate" -> 1
    [] tier = "Negligible" -> 0

\* C6: every percentage gets exactly one tier: High for p > 5, Significant
\* for 2 < p <= 5, Moderate for 1 < p <= 2, Negligible for p <= 1 (so 5.0 is
\* not High and 1.0 is Negligible), and a larger percentage never gets a
\* lower tier.
C6_Classification ==
  significances # << >> =>
    /\ \A j \in 1 .. 2 :
         LET p == percentages[j]
             t == significances[j]
         IN  /\ t \in {"High", "Significant", "Moderate", "Negligible"}
             /\ t = "High" <=> FGreater(p, Flt(5, 1, 0))
             /\ t = "Significant" <=> (FGreater(p, Flt(2, 1, 0)) /\ FLeq(p, Flt(5, 1, 0)))
             /\ t = "Moderate" <=> (FGreater(p, Flt(1, 1, 0)) /\ FLeq(p, Flt(2, 1, 0)))
             /\ t = "Negligible" <=> FLeq(p, Flt(1, 1, 0))
    /\ FLeq(percentages[1], percentages[2])
         => Rank(significances[1]) <= Rank(significances[2])

C6_Witness ==
  /\ FEq(percentages[1], Flt(5, 1, 0)) /\ FEq(percentages[2], Flt(51, 10, 0))
  /\ significances = <<"Significant", "High">>


(***************************************************************************)
(* Properties of the report (Spec).                                        *)
(***************************************************************************)
PcOrder ==
  <<"start", "full_curve", "mark_full", "tail_curve", "mark_tail", "table",
    "header", "rows", "impact_header", "impact", "recommendation", "separator",
    "scaling_potentials", "scaling_costs", "done">>

PcPos(p) == CHOOSE k \in 1 .. Len(PcOrder) : PcOrder[k] = p

\* the script is past the statements at position p
Past(p) == PcPos(pc) > PcPos(p)

Lines(sec) == SelectSeq(out, LAMBDA l : l.sec = sec)

Labels(sec) == [j \in 1 .. Len(Lines(sec)) |-> Lines(sec)[j].label]

IsPrefix(a, b) == Len(a) <= Len(b) /\ a = SubSeq(b, 1, Len(a))

Within(x, y, tol) == FLeq(FAbs(FSub(x, y)), tol)

PotTol == Flt(1, 1000, 0)

\* a percentage "about" a two-decimal figure rounds to it
PctTol == Flt(5, 1000, 0)

CutoffOf(label) == cutoffs[CHOOSE k \in 1 .. Len(cutoffs) : cutoff_labels[k] = label]

RowIs(l, potential, percentage, tier) ==
  /\ Within(l.potential, potential, PotTol)
  /\ Within(l.percentage, percentage, PctTol)
  /\ l.significance = tier

\* C4: the row of cutoff 3.0 has a potential within 1e-3 of -0.0067, a
\* percentage of about 0.67 and the tier Negligible, and so agrees with the
\* figures of the hard-coded recommendation line of 3.0sigma.
C4_RowOfThree ==
  \A a \in 1 .. Len(out) :
    (out[a].sec = "row" /\ out[a].label = "3.0sigma") =>
      /\ RowIs(out[a], Flt(-67, 10000, 0), Flt(67, 100, 0), "Negligible")
      /\ \A b \in 1 .. Len(out) :
           (out[b].sec = "recommendation" /\ out[b].label = "3.0sigma") =>
             /\ Within(out[a].potential, out[b].potential, PotTol)
             /\ Within(out[a].percentage, out[b].percentage, PctTol)

\* C5: the row of cutoff 2.0 has a potential within 1e-3 of -0.0615, a
\* percentage of about 6.15 and the tier High; the row of cutoff 2.5 has a
\* potential within 1e-3 of -0.0163, a percentage of about 1.63 and the tier
\* Moderate; both rows are printed.
C5_RowsOfTwo ==
  /\ \A a \in 1 .. Len(out) :
       out[a].sec = "row" =>
         /\ out[a].label = "2.0sigma"
              => RowIs(out[a], Flt(-615, 10000, 0), Flt(615, 100, 0), "High")
         /\ out[a].label = "2.5sigma"
              => RowIs(out[a], Flt(-163, 10000, 0), Flt(163, 100, 0), "Moderate")
  /\ Past("rows") => {"2.0sigma", "2.5sigma"} \subseteq {Lines("row")[j].label : j \in 1 .. Len(Lines("row"))}

C5_Witness ==
  \E a, b \in 1 .. Len(out) :
    /\ out[a].sec = "row" /\ out[a].label = "2.0sigma" /\ out[a].significance = "High"
    /\ out[b].sec = "row" /\ out[b].label = "2.5sigma" /\ out[b].significance = "Moderate"

\* (c / ref)^3 as a real number
CubeRatio(c, ref) == DivFin(PowFin(c, 3), PowFin(ref, 3))

Increasing(costs) ==
  \A j \in 1 .. Len(costs) - 1 : FLess(costs[j], costs[j + 1])

\* C7: the relative cost of a cutoff is (cutoff / reference)^3, with reference
\* 2.0 in analyze_cutoff_comparison (1.0 exactly at 2.0, 3.375 at 3.0) and 2.5
\* in computational_scaling_demo; in both it increases strictly with the cutoff.
C7_RelativeCost ==
  /\ \A a \in 1 .. Len(Lines("impact")) :
       LET l == Lines("impact")[a]
       IN  /\ FEq(l.relative_cost, NearestFloat(CubeRatio(CutoffOf(l.label), Two)))
           /\ l.label = "2.0sigma" => FEq(l.relative_cost, One)
           /\ l.label = "3.0sigma" => FEq(l.relative_cost, Flt(3375, 1000, 0))
  /\ Increasing([a \in 1 .. Len(Lines("impact")) |-> Lines("impact")[a].relative_cost])
  /\ \A j \in 1 .. Len(computational_costs) :
       FEq(computational_costs[j],
           NearestFloat(CubeRatio(scaling_cutoffs(j - 1), Flt(25, 10, 0))))
  /\ Increasing(computational_costs)
  /\ \A j \in 1 .. NumScaling - 1 : FLess(scaling_cutoffs(j - 1), scaling_cutoffs(j))

C7_Witness ==
  /\ pc = "done"
  /\ Len(Lines("impact")) = Len(cutoffs)
  /\ Len(computational_costs) = NumScaling

SecOrder ==
  <<"banner", "header", "row", "impact_header", "impact",
    "recommendation_header", "recommendation", "closing", "separator">>

SecPos(sec) == CHOOSE k \in 1 .. Len(SecOrder) : SecOrder[k] = sec

\* no line of a later section comes before a line of an earlier one
InSectionOrder ==
  \A a, b \in 1 .. Len(out) : a < b => SecPos(out[a].sec) <= SecPos(out[b].sec)

\* rows, cost lines and recommendation lines each follow the cutoff list, one
\* line per cutoff, and are complete once analyze_cutoff_comparison has ended
OneLinePerCutoff ==
  /\ IsPrefix(Labels("row"), cutoff_labels)
  /\ IsPrefix(Labels("impact"), cutoff_labels)
  /\ Past("rows") => Labels("row") = cutoff_labels
  /\ Past("impact") => Labels("impact") = cutoff_labels

\* C10 as stated: one significance row per cutoff in list order, then one
\* cost line per cutoff in list order, then a recommendation block that
\* consists of three lines, sections never interleaved.
C10_ThreeLineBlock ==
  /\ OneLinePerCutoff
  /\ InSectionOrder
  /\ Past("recommendation") => Len(Lines("recommendation")) + Len(Lines("closing")) = 3

\* C10 amended: as stated, but the recommendation block consists of three
\* per-cutoff lines in list order followed by two closing sentences.
C10_ReportOrder ==
  /\ OneLinePerCutoff
  /\ InSectionOrder
  /\ Past("recommendation") =>
       /\ Labels("recommendation") = cutoff_labels
       /\ Len(Lines("closing")) = 2

C10_Witness ==
  /\ pc = "done"
  /\ Len(Lines("row")) = 3 /\ Len(Lines("impact")) = 3
  /\ Len(Lines("recommendation")) = 3

====
